---- MODULE Spec2Model ----
(***************************************************************************)
(* Model of pyorbit_emcee (src/pyorbit/pyorbit_emcee.py): the probing of   *)
(* the three checkpoints, the resolution of the starting point, the PyDE   *)
(* fallback and the emcee sampling loop with its checkpoints.  One         *)
(* invocation of pyorbit_emcee is one run of the program counter pc from   *)
(* "probe_pyde" to "end"; the files on disk survive from one invocation to *)
(* the next.                                                               *)
(***************************************************************************)
EXTENDS Integers, Sequences, FiniteSets, TLC

\* ------------------------------------------------------------------ bounds
MaxSteps == 3        \* largest configured emcee_parameters['nsteps']
MaxSave == 2         \* largest configured emcee_parameters['nsave']
MaxChain == 2        \* longest chain stored in an ensemble checkpoint found at start
MaxRuns == 2         \* invocations of pyorbit_emcee on the same output directory

\* ------------------------------------------------------------------ inputs
\* theta dictionaries, written as the sequence of names in position order
\* (the name at index i of the sequence has position i-1)
LegacyIndexes == { <<"a", "b", "c">>, <<"b", "c">> }
CurrentIndexes == { <<"b", "c", "d">>, <<"c", "b">>, <<"c">> }
NpopMults == {1}
Thins == {1, 2}

\* ----------------------------------------------------------------- helpers
Range(s) == { s[k] : k \in 1..Len(s) }

\* theta_dict[theta_name]: the position of a name, -1 stands for KeyError
Lookup(td, name) ==
    IF name \in Range(td) THEN (CHOOSE k \in 1..Len(td) : td[k] = name) - 1 ELSE -1

\* a value of a vector or of a population column, tagged with where it comes from
Val(src, name) == [src |-> src, name |-> name, jitter |-> FALSE]
Vals(src, td) == [k \in 1..Len(td) |-> Val(src, td[k])]

\* lines 148-151: nwalkers = ndim * npop_mult, plus one when odd
Nwalkers(ndim, npop_mult) ==
    IF (ndim * npop_mult) % 2 = 1 THEN ndim * npop_mult + 1 ELSE ndim * npop_mult

\* np.ceil(nsteps_todo / nsave) for nsave > 0
Ceil(n, d) == IF n <= 0 THEN 0 - ((0 - n) \div d) ELSE (n + d - 1) \div d

NoPop == [rows |-> 0, cols |-> << >>]
NoMc == [src |-> "none", theta |-> << >>, nwalkers |-> 0, bounds |-> << >>,
         completed_nsteps |-> 0]
NoSampler == [ok |-> FALSE, chain |-> 0, src |-> "none"]

\* ---------------------------------------------------------- files on disk
Absent == [status |-> "absent", theta |-> << >>, nwalkers |-> 0, population |-> NoPop,
           starting_point |-> << >>, bounds |-> << >>, chain |-> 0,
           sampler |-> FALSE, samples |-> 0]
Corrupt == [Absent EXCEPT !.status = "corrupt"]

\* what pyde_save_to_pickle leaves: mc (bounds), population, starting_point, theta_dict
PydeCkpt(td, npop_mult) ==
    [Absent EXCEPT !.status = "ok", !.theta = td,
        !.nwalkers = Nwalkers(Len(td), npop_mult),
        !.population = [rows |-> Nwalkers(Len(td), npop_mult), cols |-> Vals("pyde", td)],
        !.starting_point = Vals("pyde", td),
        !.bounds = Vals("pyde_bounds", td)]

\* what the optimize stage leaves: starting_point, previous_boundaries, theta_dict
OptimizeCkpt(td) ==
    [Absent EXCEPT !.status = "ok", !.theta = td,
        !.starting_point = Vals("optimize", td),
        !.bounds = Vals("optimize_bounds", td)]

\* what emcee_save_to_cpickle leaves; an old checkpoint has no sampler in it
EmceeCkpt(td, npop_mult, chain, hasSampler, samples) ==
    [Absent EXCEPT !.status = "ok", !.theta = td,
        !.nwalkers = Nwalkers(Len(td), npop_mult),
        !.population = [rows |-> Nwalkers(Len(td), npop_mult), cols |-> Vals("emcee", td)],
        !.starting_point = Vals("emcee", td),
        !.bounds = Vals("emcee_bounds", td),
        !.chain = chain, !.sampler = hasSampler, !.samples = samples]

\* the samples written in the ensemble checkpoints found at the start
SamplesFound == {0, MaxChain, MaxSteps}

PydeFiles == {Absent, Corrupt}
    \cup { PydeCkpt(td, m) : td \in LegacyIndexes, m \in NpopMults }
OptimizeFiles == {Absent, Corrupt} \cup { OptimizeCkpt(td) : td \in LegacyIndexes }
EmceeFiles == {Absent, Corrupt}
    \cup { EmceeCkpt(<<"b", "c">>, m, ch, s, n) :
             m \in NpopMults, ch \in 1..MaxChain, s \in BOOLEAN,
             n \in SamplesFound }

\* the configuration of an invocation, as pars_input leaves it in mc
Configs == [nsteps : 1..MaxSteps, nsave : (-1)..MaxSave, thin : Thins,
            starting_point_flag : BOOLEAN, theta : CurrentIndexes,
            npop_mult : NpopMults]

NoCalls == [optimizer |-> 0, sampler |-> 0, steps |-> 0, pyde_save |-> 0,
            pyde_orig_save |-> 0, emcee_save |-> 0, dummy |-> 0, diag |-> 0,
            diag_failed |-> 0, resolved |-> 0]

\* --------------------------------------------------------------- variables
VARIABLES
    pyde_file, emcee_file, optimize_file, dummy_file,   \* the output directory
    cfg,                                \* config_in as resolved by pars_input
    run,                                \* number of the invocation
    pc, outcome, branch,                \* position, how the run ended, case taken
    reloaded_pyde, reloaded_emcee, reloaded_optimize,
    mc, population, starting_point, theta_dict, previous_boundaries,
    sampler_chain, sampler, state, sampled, nsteps_todo, niter, i,
    use_threading_pool, pool,
    calls,                              \* what this invocation has done so far
    hist                                \* the files at the start of the invocation
                                        \* and how the one before ended

disk == <<pyde_file, emcee_file, optimize_file, dummy_file>>
flags == <<reloaded_pyde, reloaded_emcee, reloaded_optimize>>
data == <<mc, population, starting_point, theta_dict, previous_boundaries>>
smp == <<sampler_chain, sampler, state, sampled, nsteps_todo, niter, i>>
pools == <<use_threading_pool, pool>>
vars == <<pyde_file, emcee_file, optimize_file, dummy_file, cfg, run, pc, outcome,
          branch, reloaded_pyde, reloaded_emcee, reloaded_optimize, mc, population,
          starting_point, theta_dict, previous_boundaries, sampler_chain, sampler,
          state, sampled, nsteps_todo, niter, i, use_threading_pool, pool, calls,
          hist>>

\* lines 17-34: the locals of a new invocation
Locals ==
    /\ pc = "probe_pyde" /\ outcome = "running" /\ branch = 0
    /\ reloaded_pyde = FALSE /\ reloaded_emcee = FALSE /\ reloaded_optimize = FALSE
    /\ mc = NoMc /\ population = NoPop /\ starting_point = << >>
    /\ theta_dict = << >> /\ previous_boundaries = << >>
    /\ sampler_chain = 0 /\ sampler = NoSampler /\ state = 0
    /\ sampled = 0 /\ nsteps_todo = 0 /\ niter = 0 /\ i = 0
    /\ use_threading_pool = [pyde |-> FALSE, emcee |-> FALSE] /\ pool = {}
    /\ calls = NoCalls

Init ==
    /\ pyde_file \in PydeFiles
    /\ emcee_file \in EmceeFiles
    /\ optimize_file \in OptimizeFiles
    /\ dummy_file = FALSE
    /\ cfg \in Configs
    /\ run = 1
    /\ hist = [pyde_saved |-> FALSE, start_pyde |-> pyde_file,
               start_emcee |-> emcee_file, prev |-> "none", prev_thin |-> FALSE]
    /\ Locals

\* ------------------------------------------------------------ control flow
\* a live multiprocessing.Pool: the stage that opened it and the chunk it is for
Pool(stage, chunk) == [stage |-> stage, chunk |-> chunk]

\* lines 246, 318 and 363: with multiprocessing.Pool() as pool
PoolEnter(live, use, p) == IF use THEN live \cup {p} ELSE live

PoolExit_leak(live, p) == live

\* lines 246-255, 318-325 and 363-370: the end of the with block ends the pool
PoolExit(live, p) == live \ {p}

\* leaving pyorbit_emcee, by return or by exception, leaves every with block
Ended(o) == pc' = "end" /\ outcome' = o /\ pool' = {}
             /\ UNCHANGED use_threading_pool

Called(what) == calls' = [calls EXCEPT ![what] = @ + 1]

\* a call of results_analysis that raises: nothing catches it
DiagRaises(where) ==
    /\ calls' = [calls EXCEPT !.diag = @ + 1, !.diag_failed = @ + 1]
    /\ Ended(where)

LoadRaises_never(file) == FALSE

\* lines 40, 48 and 55: except FileNotFoundError lets every other exception
\* of a load through
LoadRaises(file) == file.status = "corrupt"

\* lines 36-41: pyde_load_from_cpickle, only FileNotFoundError is caught
ProbePyde ==
    /\ pc = "probe_pyde"
    /\ ~LoadRaises(pyde_file)
    /\ IF pyde_file.status = "ok"
       THEN /\ mc' = [NoMc EXCEPT !.src = "pyde", !.theta = pyde_file.theta,
                         !.nwalkers = pyde_file.nwalkers, !.bounds = pyde_file.bounds]
            /\ population' = pyde_file.population
            /\ starting_point' = pyde_file.starting_point
            /\ theta_dict' = pyde_file.theta
            /\ reloaded_pyde' = TRUE
       ELSE UNCHANGED <<mc, population, starting_point, theta_dict, reloaded_pyde>>
    /\ pc' = "probe_emcee"
    /\ UNCHANGED <<disk, cfg, run, outcome, branch, reloaded_emcee, reloaded_optimize,
                   previous_boundaries, smp, pools, calls, hist>>

\* lines 43-49: emcee_load_from_cpickle, only FileNotFoundError is caught
ProbeEmcee ==
    /\ pc = "probe_emcee"
    /\ ~LoadRaises(emcee_file)
    /\ IF emcee_file.status = "ok"
       THEN /\ mc' = [NoMc EXCEPT !.src = "emcee", !.theta = emcee_file.theta,
                         !.nwalkers = emcee_file.nwalkers, !.bounds = emcee_file.bounds]
            /\ starting_point' = emcee_file.starting_point
            /\ population' = emcee_file.population
            /\ state' = emcee_file.chain
            /\ sampler_chain' = emcee_file.chain
            /\ theta_dict' = emcee_file.theta
            /\ sampler' = IF emcee_file.sampler
                          THEN [ok |-> TRUE, chain |-> emcee_file.chain, src |-> "emcee_load"]
                          ELSE NoSampler
            /\ reloaded_emcee' = TRUE
       ELSE UNCHANGED <<mc, starting_point, population, state, sampler_chain,
                        theta_dict, sampler, reloaded_emcee>>
    /\ pc' = "probe_optimize"
    /\ UNCHANGED <<disk, cfg, run, outcome, branch, reloaded_pyde, reloaded_optimize,
                   previous_boundaries, sampled, nsteps_todo, niter, i, pools, calls,
                   hist>>

\* lines 51-56: starting_point_load_from_cpickle, only FileNotFoundError is caught
ProbeOptimize ==
    /\ pc = "probe_optimize"
    /\ ~LoadRaises(optimize_file)
    /\ IF optimize_file.status = "ok"
       THEN /\ starting_point' = optimize_file.starting_point
            /\ previous_boundaries' = optimize_file.bounds
            /\ theta_dict' = optimize_file.theta
            /\ reloaded_optimize' = TRUE
       ELSE UNCHANGED <<starting_point, previous_boundaries, theta_dict,
                        reloaded_optimize>>
    /\ pc' = "loaded"
    /\ UNCHANGED <<disk, cfg, run, outcome, branch, reloaded_pyde, reloaded_emcee,
                   mc, population, smp, pools, calls, hist>>

\* lines 36-56: any other exception of a load leaves pyorbit_emcee at once
ProbeRaises ==
    /\ \/ pc = "probe_pyde" /\ LoadRaises(pyde_file)
       \/ pc = "probe_emcee" /\ LoadRaises(emcee_file)
       \/ pc = "probe_optimize" /\ LoadRaises(optimize_file)
    /\ Ended("raised_probe")
    /\ UNCHANGED <<disk, cfg, run, branch, flags, data, smp, calls, hist>>

CompletedNsteps_stored(chain, thin, samples) == samples

CompletedNsteps_no_thin(chain, thin, samples) == chain

\* lines 45 and 70-71: sampler_chain.shape[1] * thin; the samples of the
\* checkpoint are read into _ and not used
CompletedNsteps(chain, thin, samples) == chain * thin

\* lines 64-87: the chain of the checkpoint gives the completed steps
ResumeEmcee ==
    /\ pc = "loaded" /\ reloaded_emcee
    /\ previous_boundaries' = mc.bounds
    /\ mc' = [mc EXCEPT !.completed_nsteps =
                 CompletedNsteps(sampler_chain, cfg.thin, emcee_file.samples)]
    /\ Called("diag")
    /\ pc' = "resume_check"
    /\ UNCHANGED <<disk, cfg, run, outcome, branch, flags, population, starting_point,
                   theta_dict, smp, pools, hist>>

\* line 83: print_integrated_ACF raises
ResumeEmceeDiagRaises ==
    /\ pc = "loaded" /\ reloaded_emcee
    /\ previous_boundaries' = mc.bounds
    /\ mc' = [mc EXCEPT !.completed_nsteps =
                 CompletedNsteps(sampler_chain, cfg.thin, emcee_file.samples)]
    /\ DiagRaises("raised_diag_resume")
    /\ UNCHANGED <<disk, cfg, run, branch, flags, population, starting_point,
                   theta_dict, smp, hist>>

IsCompleted_lt(nsteps, completed_nsteps) == nsteps < completed_nsteps

\* line 89
IsCompleted(nsteps, completed_nsteps) == nsteps <= completed_nsteps

\* lines 89-107: nothing is left to do
ResumeCompleted ==
    /\ pc = "resume_check"
    /\ IsCompleted(cfg.nsteps, mc.completed_nsteps)
    /\ Called("diag")
    /\ Ended("completed")
    /\ UNCHANGED <<disk, cfg, run, branch, flags, data, smp, hist>>

\* line 98: results_resumen raises
ResumeCompletedDiagRaises ==
    /\ pc = "resume_check"
    /\ IsCompleted(cfg.nsteps, mc.completed_nsteps)
    /\ DiagRaises("raised_diag_resume")
    /\ UNCHANGED <<disk, cfg, run, branch, flags, data, smp, hist>>

HasSampler_always(smplr) == TRUE

\* line 109: elif not sampler
HasSampler(smplr) == smplr.ok

\* lines 109-114: a checkpoint without the sampler cannot be resumed
ResumeNoSampler ==
    /\ pc = "resume_check"
    /\ ~IsCompleted(cfg.nsteps, mc.completed_nsteps)
    /\ ~HasSampler(sampler)
    /\ Ended("no_sampler")
    /\ UNCHANGED <<disk, cfg, run, branch, flags, data, smp, calls, hist>>

\* lines 116-125
ResumeTodo ==
    /\ pc = "resume_check"
    /\ ~IsCompleted(cfg.nsteps, mc.completed_nsteps)
    /\ HasSampler(sampler)
    /\ sampled' = mc.completed_nsteps
    /\ nsteps_todo' = cfg.nsteps - mc.completed_nsteps
    /\ pc' = "pools"
    /\ UNCHANGED <<disk, cfg, run, outcome, branch, flags, data, sampler_chain,
                   sampler, state, niter, i, pools, calls, hist>>

\* lines 64-65 and 127-158: a new model container for the current configuration
FreshSetup ==
    /\ pc = "loaded" /\ ~reloaded_emcee
    /\ previous_boundaries' = IF reloaded_pyde THEN mc.bounds ELSE previous_boundaries
    /\ mc' = [NoMc EXCEPT !.src = "new", !.theta = cfg.theta,
                 !.nwalkers = Nwalkers(Len(cfg.theta), cfg.npop_mult),
                 !.bounds = Vals("config_bounds", cfg.theta)]
    /\ Called("diag")
    /\ state' = 0
    /\ sampled' = 0
    /\ nsteps_todo' = cfg.nsteps
    /\ pc' = "pools"
    /\ UNCHANGED <<disk, cfg, run, outcome, branch, flags, population, starting_point,
                   theta_dict, sampler_chain, sampler, niter, i, pools, hist>>

\* line 143: results_resumen raises
FreshSetupDiagRaises ==
    /\ pc = "loaded" /\ ~reloaded_emcee
    /\ previous_boundaries' = IF reloaded_pyde THEN mc.bounds ELSE previous_boundaries
    /\ mc' = [NoMc EXCEPT !.src = "new", !.theta = cfg.theta,
                 !.nwalkers = Nwalkers(Len(cfg.theta), cfg.npop_mult),
                 !.bounds = Vals("config_bounds", cfg.theta)]
    /\ DiagRaises("raised_diag_setup")
    /\ UNCHANGED <<disk, cfg, run, branch, flags, population, starting_point,
                   theta_dict, smp, hist>>

\* lines 168-175: emcee 2 never uses the pool, a missing flag counts as False
ThreadingPools ==
    /\ pc = "pools"
    /\ \E version \in {"2", "3"}, pyde_flag \in BOOLEAN, emcee_flag \in BOOLEAN :
         use_threading_pool' = [pyde |-> pyde_flag,
                                emcee |-> IF version = "2" THEN FALSE ELSE emcee_flag]
    /\ pc' = "resolve"
    /\ UNCHANGED <<disk, cfg, run, outcome, branch, flags, data, smp, pool, calls, hist>>

\* ---------------------------------------------------------- starting point
\* numpy assigns an array of src_len entries to a slice of dst_len entries
Broadcasts(src_len, dst_len) == src_len = dst_len \/ src_len = 1

\* np.median(population, axis=0): a column of equal tags has that tag as median
Median(pop) == pop.cols

\* np.random.normal(starting_point, 0.0000001): the values marked as perturbed
Jitter(vec) == [k \in 1..Len(vec) |-> [vec[k] EXCEPT !.jitter = TRUE]]

\* lines 178-180
IsCase1 == reloaded_emcee
IsCase2_ignores_emcee == reloaded_pyde

\* line 181
IsCase2 == ~reloaded_emcee /\ reloaded_pyde
\* lines 203-205
IsCase3 == ~reloaded_emcee /\ ~reloaded_pyde /\ reloaded_optimize
\* lines 203, 212
IsCase4 == ~reloaded_emcee /\ ~reloaded_pyde /\ ~reloaded_optimize
             /\ cfg.starting_point_flag
IsCase5_ignores_flag == ~reloaded_emcee /\ ~reloaded_pyde /\ ~reloaded_optimize

\* line 228
IsCase5 == ~reloaded_emcee /\ ~reloaded_pyde /\ ~reloaded_optimize
             /\ ~cfg.starting_point_flag

\* lines 178-180: the reloaded sampler goes on
Case1 ==
    /\ pc = "resolve" /\ IsCase1
    /\ Called("resolved")
    /\ branch' = 1
    /\ pc' = "summary"
    /\ UNCHANGED <<disk, cfg, run, outcome, flags, data, smp, pools, hist>>

\* lines 190-193: the loop stops at a name the legacy dictionary lacks
\* (KeyError), at a legacy position outside the legacy arrays (IndexError) or
\* at a column of another height (ValueError)
RemapPopulationRaises(td, td_legacy, pop_legacy, nwalkers, bounds_legacy) ==
    \E k \in 1..Len(td) :
        LET j == Lookup(td_legacy, td[k])
        IN  \/ j = -1
            \/ j + 1 > Len(pop_legacy.cols)
            \/ ~Broadcasts(pop_legacy.rows, nwalkers)
            \/ j + 1 > Len(bounds_legacy)

\* lines 191-193: the entry of the legacy array at the legacy position of the
\* name that now has position k-1
RemapColumn(td, td_legacy, legacy, k) == legacy[Lookup(td_legacy, td[k]) + 1]

\* lines 187-192: population starts as zeros and gets the legacy columns
RemapPopulation(td, td_legacy, pop_legacy, nwalkers) ==
    [rows |-> nwalkers,
     cols |-> [k \in 1..Len(td) |->
                 IF Lookup(td_legacy, td[k]) # -1
                 THEN RemapColumn(td, td_legacy, pop_legacy.cols, k)
                 ELSE Val("zero", td[k])]]

\* lines 181-201: the population of the PyDE checkpoint in the current order
Case2 ==
    /\ pc = "resolve" /\ IsCase2
    /\ ~RemapPopulationRaises(mc.theta, theta_dict, population, mc.nwalkers,
                              previous_boundaries)
    /\ Called("resolved")
    /\ branch' = 2
    /\ theta_dict' = mc.theta
    /\ population' = RemapPopulation(mc.theta, theta_dict, population, mc.nwalkers)
    /\ mc' = [mc EXCEPT !.bounds = [k \in 1..Len(mc.theta) |->
                 RemapColumn(mc.theta, theta_dict, previous_boundaries, k)]]
    /\ starting_point' = Median(population')
    /\ pc' = "summary"
    /\ UNCHANGED <<disk, cfg, run, outcome, flags, previous_boundaries, smp, pools, hist>>

\* lines 190-193: the exception of the loop leaves pyorbit_emcee
Case2Raises ==
    /\ pc = "resolve" /\ IsCase2
    /\ RemapPopulationRaises(mc.theta, theta_dict, population, mc.nwalkers,
                             previous_boundaries)
    /\ Called("resolved")
    /\ branch' = 2
    /\ theta_dict' = mc.theta
    /\ Ended("raised_remap")
    /\ UNCHANGED <<disk, cfg, run, flags, mc, population, starting_point,
                   previous_boundaries, smp, hist>>

\* lines 210-211: the loop stops at a name the legacy dictionary lacks
\* (KeyError) or at a position outside starting_point (IndexError)
RemapPointRaises(td, td_legacy, point_legacy) ==
    \E k \in 1..Len(td) :
        \/ Lookup(td_legacy, td[k]) = -1
        \/ Lookup(td_legacy, td[k]) + 1 > Len(point_legacy)
        \/ k > Len(point_legacy)

\* lines 208-211: starting_point keeps the length of the legacy vector, the
\* entries at the current positions are overwritten from the legacy copy
RemapPoint(td, td_legacy, point_legacy) ==
    [k \in 1..Len(point_legacy) |->
        IF k <= Len(td) THEN RemapColumn(td, td_legacy, point_legacy, k)
        ELSE point_legacy[k]]

\* lines 217-220: every walker is a draw around starting_point
SyntheticPopulation(point, nwalkers) == [rows |-> nwalkers, cols |-> Jitter(point)]

\* lines 203-211 and 217-226: the vector of the optimize checkpoint
Case3 ==
    /\ pc = "resolve" /\ IsCase3
    /\ ~RemapPointRaises(mc.theta, theta_dict, starting_point)
    /\ Broadcasts(Len(starting_point), Len(mc.theta))
    /\ Called("resolved")
    /\ branch' = 3
    /\ theta_dict' = mc.theta
    /\ starting_point' = RemapPoint(mc.theta, theta_dict, starting_point)
    /\ population' = SyntheticPopulation(starting_point', mc.nwalkers)
    /\ pc' = "summary"
    /\ UNCHANGED <<disk, cfg, run, outcome, flags, mc, previous_boundaries, smp,
                   pools, hist>>

\* lines 210-211 and 220: KeyError or IndexError of the loop, or ValueError
\* when starting_point has not the length of a walker
Case3Raises ==
    /\ pc = "resolve" /\ IsCase3
    /\ \/ RemapPointRaises(mc.theta, theta_dict, starting_point)
       \/ ~Broadcasts(Len(starting_point), Len(mc.theta))
    /\ Called("resolved")
    /\ branch' = 3
    /\ theta_dict' = mc.theta
    /\ starting_point' = IF RemapPointRaises(mc.theta, theta_dict, starting_point)
                         THEN starting_point
                         ELSE RemapPoint(mc.theta, theta_dict, starting_point)
    /\ Ended("raised_remap")
    /\ UNCHANGED <<disk, cfg, run, flags, mc, population, previous_boundaries, smp, hist>>

\* lines 203 and 212-226: the starting point of the YAML file
Case4 ==
    /\ pc = "resolve" /\ IsCase4
    /\ Called("resolved")
    /\ branch' = 4
    /\ starting_point' = Vals("user", mc.theta)
    /\ population' = SyntheticPopulation(starting_point', mc.nwalkers)
    /\ pc' = "summary"
    /\ UNCHANGED <<disk, cfg, run, outcome, flags, mc, theta_dict,
                   previous_boundaries, smp, pools, hist>>

\* lines 228-245: PyDE is needed, the pool is opened when asked for
Case5 ==
    /\ pc = "resolve" /\ IsCase5
    /\ Called("resolved")
    /\ branch' = 5
    /\ pool' = PoolEnter(pool, use_threading_pool.pyde, Pool("pyde", 0))
    /\ pc' = "pyde"
    /\ UNCHANGED <<disk, cfg, run, outcome, flags, data, smp, use_threading_pool, hist>>

\* lines 230-234: PyDE cannot be imported
Case5ImportError ==
    /\ pc = "resolve" /\ IsCase5
    /\ Called("resolved")
    /\ branch' = 5
    /\ Ended("quit")
    /\ UNCHANGED <<disk, cfg, run, flags, data, smp, hist>>

\* lines 245-266: DiffEvol and de.optimize, the pool is closed on the way out
PydeOptimize ==
    /\ pc = "pyde"
    /\ Called("optimizer")
    /\ population' = [rows |-> mc.nwalkers, cols |-> Vals("de", mc.theta)]
    /\ starting_point' = Median(population')
    /\ pool' = PoolExit(pool, Pool("pyde", 0))
    /\ pc' = "pyde_save"
    /\ UNCHANGED <<disk, cfg, run, outcome, branch, flags, mc, theta_dict,
                   previous_boundaries, smp, use_threading_pool, hist>>

\* lines 245-263: de.optimize raises
PydeOptimizeRaises ==
    /\ pc = "pyde"
    /\ Called("optimizer")
    /\ Ended("raised_pyde")
    /\ UNCHANGED <<disk, cfg, run, branch, flags, data, smp, hist>>

PydeSaved_only_recentered(recenter, file, saved) == IF recenter THEN saved ELSE file

\* line 281: the checkpoint is written whatever recenter_bounds_flag is
PydeSaved(recenter, file, saved) == saved

\* lines 268-285: bounds redefinition when asked for, then the checkpoint
PydeSave ==
    /\ pc = "pyde_save"
    /\ \E recenter_bounds_flag \in BOOLEAN :
         /\ theta_dict' = mc.theta
         /\ mc' = IF recenter_bounds_flag
                  THEN [mc EXCEPT !.bounds = Vals("recentered_bounds", mc.theta)]
                  ELSE mc
         /\ population' = IF recenter_bounds_flag
                          THEN [rows |-> mc.nwalkers, cols |-> Vals("de_fixed", mc.theta)]
                          ELSE population
         /\ starting_point' = Median(population')
         /\ pyde_file' = PydeSaved(recenter_bounds_flag, pyde_file,
                [Absent EXCEPT !.status = "ok", !.theta = theta_dict',
                    !.nwalkers = mc.nwalkers, !.population = population',
                    !.starting_point = starting_point', !.bounds = mc'.bounds])
         /\ calls' = [calls EXCEPT
                !.pyde_save = IF pyde_file' # pyde_file THEN @ + 1 ELSE @,
                !.pyde_orig_save = IF recenter_bounds_flag THEN @ + 1 ELSE @]
    /\ pc' = "summary"
    /\ UNCHANGED <<emcee_file, optimize_file, dummy_file, cfg, run, outcome, branch,
                   flags, previous_boundaries, smp, pools, hist>>

\* ---------------------------------------------------------------- sampling
\* lines 287-290: the summary of the starting point, not for a reloaded sampler
Summary ==
    /\ pc = "summary"
    /\ IF reloaded_emcee THEN UNCHANGED calls ELSE Called("diag")
    /\ pc' = "sampler"
    /\ UNCHANGED <<disk, cfg, run, outcome, branch, flags, data, smp, pools, hist>>

\* lines 288-289: results_resumen raises
SummaryDiagRaises ==
    /\ pc = "summary" /\ ~reloaded_emcee
    /\ DiagRaises("raised_diag_summary")
    /\ UNCHANGED <<disk, cfg, run, branch, flags, data, smp, hist>>

SamplerOfRun_always_new(reloaded, smplr) == [ok |-> TRUE, chain |-> 0, src |-> "new"]

\* lines 303-308: emcee.EnsembleSampler unless the sampler was reloaded
SamplerOfRun(reloaded, smplr) ==
    IF reloaded THEN smplr ELSE [ok |-> TRUE, chain |-> 0, src |-> "new"]

\* lines 303-313: a new sampler unless one was reloaded, then the number of chunks
SamplerSetup ==
    /\ pc = "sampler"
    /\ sampler' = SamplerOfRun(reloaded_emcee, sampler)
    /\ IF cfg.nsave > 0
       THEN /\ niter' = Ceil(nsteps_todo, cfg.nsave)
            /\ i' = 0
            /\ pc' = "loop"
       ELSE /\ UNCHANGED <<niter, i>>
            /\ pc' = "single"
    /\ UNCHANGED <<disk, cfg, run, outcome, branch, flags, data, sampler_chain, state,
                   sampled, nsteps_todo, pools, calls, hist>>

RunMcmc_no_thin(smplr, n, thin) == [smplr EXCEPT !.chain = @ + n]

\* lines 70-71 and 320-332: sampler.run_mcmc(population, n, thin=thin) runs n
\* steps, one in thin of them is added to sampler.chain
RunMcmc(smplr, n, thin) == [smplr EXCEPT !.chain = @ + (n \div thin)]

\* lines 315-319: the next chunk, with its own pool when asked for
ChunkBegin ==
    /\ pc = "loop" /\ i < niter
    /\ pool' = PoolEnter(pool, use_threading_pool.emcee, Pool("emcee", i))
    /\ pc' = "chunk_run"
    /\ UNCHANGED <<disk, cfg, run, outcome, branch, flags, data, smp,
                   use_threading_pool, calls, hist>>

\* lines 318-332: run_mcmc for nsave steps in every chunk, the pool is closed
\* on the way out
ChunkRun ==
    /\ pc = "chunk_run"
    /\ sampler' = RunMcmc(sampler, cfg.nsave, cfg.thin)
    /\ calls' = [calls EXCEPT !.sampler = @ + 1, !.steps = @ + cfg.nsave]
    /\ population' = [population EXCEPT !.cols =
                        [k \in 1..Len(@) |-> [@[k] EXCEPT !.src = "emcee"]]]
    /\ state' = sampler'.chain
    /\ pool' = PoolExit(pool, Pool("emcee", i))
    /\ pc' = "chunk_save"
    /\ UNCHANGED <<disk, cfg, run, outcome, branch, flags, mc, starting_point,
                   theta_dict, previous_boundaries, sampler_chain, sampled,
                   nsteps_todo, niter, i, use_threading_pool, hist>>

RunMcmcRaises_caught ==
    /\ pc \in {"chunk_run", "single_run"}
    /\ Called("sampler")
    /\ outcome' = "raised_sampler"
    /\ pc' = IF pc = "chunk_run" THEN "chunk_save" ELSE "single_save"
    /\ pool' = {}
    /\ UNCHANGED <<disk, cfg, run, branch, flags, data, smp, use_threading_pool, hist>>

\* lines 318-332 and 363-378: run_mcmc or a worker of the pool raises
RunMcmcRaises ==
    /\ pc \in {"chunk_run", "single_run"}
    /\ Called("sampler")
    /\ Ended("raised_sampler")
    /\ UNCHANGED <<disk, cfg, run, branch, flags, data, smp, hist>>

EmceeSaved_skipped(samples) == emcee_file

\* emcee_save_to_cpickle(mc, starting_point, population, prob, state, sampler,
\* theta_dict, samples=sampled)
EmceeSaved(samples) ==
    [Absent EXCEPT !.status = "ok", !.theta = mc.theta, !.nwalkers = mc.nwalkers,
        !.population = population, !.starting_point = starting_point,
        !.bounds = mc.bounds, !.chain = sampler.chain, !.sampler = sampler.ok,
        !.samples = samples]

\* lines 334-338: the checkpoint of the chunk
ChunkSave ==
    /\ pc = "chunk_save"
    /\ sampled' = sampled + cfg.nsave
    /\ theta_dict' = mc.theta
    /\ emcee_file' = EmceeSaved(sampled')
    /\ Called("emcee_save")
    /\ pc' = "chunk_diag"
    /\ UNCHANGED <<pyde_file, optimize_file, dummy_file, cfg, run, outcome, branch,
                   flags, mc, population, starting_point, previous_boundaries,
                   sampler_chain, sampler, state, nsteps_todo, niter, i, pools, hist>>

\* lines 340-355: integrated ACF and summary of the chain so far
ChunkDiag ==
    /\ pc = "chunk_diag"
    /\ Called("diag")
    /\ pc' = "chunk_reload"
    /\ UNCHANGED <<disk, cfg, run, outcome, branch, flags, data, smp, pools, hist>>

\* lines 345-350 and 392-397: print_integrated_ACF or results_resumen raises
ChunkDiagRaises ==
    /\ pc \in {"chunk_diag", "single_diag"}
    /\ DiagRaises("raised_diag_chunk")
    /\ UNCHANGED <<disk, cfg, run, branch, flags, data, smp, hist>>

SimplerLoad_kept(file, smplr) == smplr

\* line 359: emcee_simpler_load_from_cpickle gives the sampler of the file
SimplerLoad(file, smplr) ==
    [ok |-> file.sampler, chain |-> file.chain, src |-> "simpler_load"]

\* line 359: state and sampler are read back from the checkpoint
ChunkReload ==
    /\ pc = "chunk_reload"
    /\ state' = emcee_file.chain
    /\ sampler' = SimplerLoad(emcee_file, sampler)
    /\ i' = i + 1
    /\ pc' = "loop"
    /\ UNCHANGED <<disk, cfg, run, outcome, branch, flags, data, sampler_chain,
                   sampled, nsteps_todo, niter, pools, calls, hist>>

\* lines 361-364: no temporary saves, the pool is opened when asked for
SingleBegin ==
    /\ pc = "single"
    /\ pool' = PoolEnter(pool, use_threading_pool.emcee, Pool("emcee", 0))
    /\ pc' = "single_run"
    /\ UNCHANGED <<disk, cfg, run, outcome, branch, flags, data, smp,
                   use_threading_pool, calls, hist>>

\* lines 363-378: all the steps to do in one call of run_mcmc
SingleRun ==
    /\ pc = "single_run"
    /\ sampler' = RunMcmc(sampler, nsteps_todo, cfg.thin)
    /\ calls' = [calls EXCEPT !.sampler = @ + 1, !.steps = @ + nsteps_todo]
    /\ population' = [population EXCEPT !.cols =
                        [k \in 1..Len(@) |-> [@[k] EXCEPT !.src = "emcee"]]]
    /\ state' = sampler'.chain
    /\ pool' = PoolExit(pool, Pool("emcee", 0))
    /\ pc' = "single_save"
    /\ UNCHANGED <<disk, cfg, run, outcome, branch, flags, mc, starting_point,
                   theta_dict, previous_boundaries, sampler_chain, sampled,
                   nsteps_todo, niter, i, use_threading_pool, hist>>

\* lines 380-385
SingleSave ==
    /\ pc = "single_save"
    /\ sampled' = sampled + nsteps_todo
    /\ theta_dict' = mc.theta
    /\ emcee_file' = EmceeSaved(sampled')
    /\ Called("emcee_save")
    /\ pc' = "single_diag"
    /\ UNCHANGED <<pyde_file, optimize_file, dummy_file, cfg, run, outcome, branch,
                   flags, mc, population, starting_point, previous_boundaries,
                   sampler_chain, sampler, state, nsteps_todo, niter, i, pools, hist>>

\* lines 387-397
SingleDiag ==
    /\ pc = "single_diag"
    /\ Called("diag")
    /\ pc' = "finish"
    /\ UNCHANGED <<disk, cfg, run, outcome, branch, flags, data, smp, pools, hist>>

\* line 315: the loop is over
LoopEnd ==
    /\ pc = "loop" /\ ~(i < niter)
    /\ pc' = "finish"
    /\ UNCHANGED <<disk, cfg, run, outcome, branch, flags, data, smp, pools, calls,
                   hist>>

\* lines 399-407: the dummy file tells the next stage that emcee is over
Finish ==
    /\ pc = "finish"
    /\ dummy_file' = TRUE
    /\ Called("dummy")
    /\ Ended("finished")
    /\ UNCHANGED <<pyde_file, emcee_file, optimize_file, cfg, run, branch, flags,
                   data, smp, hist>>

\* ------------------------------------------------------------- environment
\* the process is stopped from outside, the files stay as they are
Kill ==
    /\ pc # "end"
    /\ Ended("killed")
    /\ UNCHANGED <<disk, cfg, run, branch, flags, data, smp, calls, hist>>

\* lines 322, 329, 367 and 375: the steps asked of run_mcmc in one call
ChunkLength == IF cfg.nsave > 0 THEN cfg.nsave ELSE nsteps_todo

\* PyORBIT_Run.py is started again on the same configuration and directory
Invoke ==
    /\ pc = "end" /\ run < MaxRuns
    /\ run' = run + 1
    /\ hist' = [pyde_saved |-> hist.pyde_saved \/ calls.pyde_save > 0,
                start_pyde |-> pyde_file, start_emcee |-> emcee_file,
                prev |-> IF outcome \in {"finished", "raised_sampler"}
                         THEN outcome ELSE "other",
                prev_thin |-> /\ outcome = "finished"
                              /\ ChunkLength % cfg.thin = 0]
    /\ pc' = "probe_pyde" /\ outcome' = "running" /\ branch' = 0
    /\ reloaded_pyde' = FALSE /\ reloaded_emcee' = FALSE /\ reloaded_optimize' = FALSE
    /\ mc' = NoMc /\ population' = NoPop /\ starting_point' = << >>
    /\ theta_dict' = << >> /\ previous_boundaries' = << >>
    /\ sampler_chain' = 0 /\ sampler' = NoSampler /\ state' = 0
    /\ sampled' = 0 /\ nsteps_todo' = 0 /\ niter' = 0 /\ i' = 0
    /\ use_threading_pool' = [pyde |-> FALSE, emcee |-> FALSE] /\ pool' = {}
    /\ calls' = NoCalls
    /\ UNCHANGED <<disk, cfg>>

Next ==
    \/ ProbePyde \/ ProbeEmcee \/ ProbeOptimize \/ ProbeRaises
    \/ ResumeEmcee \/ ResumeEmceeDiagRaises
    \/ ResumeCompleted \/ ResumeCompletedDiagRaises \/ ResumeNoSampler \/ ResumeTodo
    \/ FreshSetup \/ FreshSetupDiagRaises \/ ThreadingPools
    \/ Case1 \/ Case2 \/ Case2Raises \/ Case3 \/ Case3Raises \/ Case4
    \/ Case5 \/ Case5ImportError \/ PydeOptimize \/ PydeOptimizeRaises \/ PydeSave
    \/ Summary \/ SummaryDiagRaises \/ SamplerSetup
    \/ ChunkBegin \/ ChunkRun \/ RunMcmcRaises \/ ChunkSave \/ ChunkDiag
    \/ ChunkDiagRaises \/ ChunkReload \/ LoopEnd
    \/ SingleBegin \/ SingleRun \/ SingleSave \/ SingleDiag
    \/ Finish \/ Kill \/ Invoke

Spec == Init /\ [][Next]_vars

\* ------------------------------------------------------------- properties
Present(file) == file.status = "ok"

\* the case the files found at the start of the invocation and the flag of
\* the configuration call for
StartCase ==
    IF Present(hist.start_emcee) THEN 1
    ELSE IF Present(hist.start_pyde) THEN 2
    ELSE IF Present(optimize_file) THEN 3
    ELSE IF cfg.starting_point_flag THEN 4
    ELSE 5

\* the positions after the resolution of the starting point
AfterResolution == {"summary", "sampler", "loop", "chunk_run", "chunk_save",
                    "chunk_diag", "chunk_reload", "single", "single_run",
                    "single_save", "single_diag", "finish"}

\* C1: the starting point is resolved at most once in an invocation, and the
\* case taken is the first that applies in the order ensemble checkpoint,
\* PyDE checkpoint, optimize checkpoint, starting point of the configuration,
\* PyDE run; with an ensemble and a PyDE checkpoint it is case 1
C1_PriorityChain ==
    /\ calls.resolved <= 1
    /\ (branch # 0) = (calls.resolved = 1)
    /\ branch # 0 => branch = StartCase
    /\ (branch # 0 /\ Present(hist.start_emcee) /\ Present(hist.start_pyde))
          => branch = 1

C1_Witness ==
    /\ branch = 1 /\ pc = "summary"
    /\ Present(hist.start_emcee) /\ Present(hist.start_pyde)
    /\ Present(optimize_file) /\ cfg.starting_point_flag

\* C2: the sampler never runs more steps than nsteps_todo, and when the
\* sampling is over it has run exactly nsteps_todo steps, in one call when
\* nsave <= 0 and in ceil(nsteps_todo / nsave) calls otherwise
C2_ExactSteps ==
    /\ calls.steps <= nsteps_todo
    /\ pc = "finish" =>
          /\ calls.steps = nsteps_todo
          /\ calls.sampler = IF cfg.nsave <= 0 THEN 1
                             ELSE Ceil(nsteps_todo, cfg.nsave)

\* C3: an ensemble checkpoint whose chain times thin reaches nsteps ends the
\* invocation at the check of line 89: the sampler and PyDE are never
\* called, no checkpoint is written, no case is entered, and an invocation
\* that ends without an exception and without being stopped ends at the
\* return of line 107
C3_CompletionShortCircuit ==
    (Present(hist.start_emcee) /\ hist.start_emcee.chain * cfg.thin >= cfg.nsteps)
    => /\ calls.sampler = 0 /\ calls.steps = 0 /\ calls.optimizer = 0
       /\ calls.emcee_save = 0 /\ calls.pyde_save = 0
       /\ emcee_file = hist.start_emcee
       /\ pc \in {"probe_pyde", "probe_emcee", "probe_optimize", "loaded",
                  "resume_check", "end"}
       /\ pc = "end" => outcome \in {"completed", "raised_probe",
                                      "raised_diag_resume", "killed"}

C3_Witness ==
    /\ pc = "end" /\ outcome = "completed"
    /\ Present(hist.start_emcee)
    /\ hist.start_emcee.chain * cfg.thin = cfg.nsteps
    /\ hist.start_emcee.sampler

\* C4: in cases 2 and 3 the remap never fails; every current name has, in
\* its current position, the legacy entry of that name when the legacy
\* dictionary has the name and the value the destination had before
\* otherwise, and nothing of the names that are only legacy is left
C4_RemapCorrect ==
    /\ outcome # "raised_remap"
    /\ (branch = 2 /\ pc \in {"summary", "sampler"}) =>
          /\ Len(population.cols) = Len(cfg.theta)
          /\ \A k \in 1..Len(cfg.theta) :
                population.cols[k] =
                    IF cfg.theta[k] \in Range(hist.start_pyde.theta)
                    THEN Val("pyde", cfg.theta[k]) ELSE Val("zero", cfg.theta[k])
    /\ (branch = 3 /\ pc \in {"summary", "sampler"}) =>
          /\ Len(starting_point) = Len(cfg.theta)
          /\ \A k \in 1..Len(cfg.theta) :
                cfg.theta[k] \in Range(optimize_file.theta)
                   => starting_point[k] = Val("optimize", cfg.theta[k])

\* C5: an invocation that ends at the return of line 107 or at the end of
\* pyorbit_emcee has written the dummy file
C5_MarkerOnSuccess ==
    (pc = "end" /\ outcome \in {"completed", "finished"})
    => calls.dummy = 1 /\ dummy_file

\* C6: a load that finds no file lets the invocation go on with the flag of
\* that stage False; a load that raises anything else ends the invocation
\* there: no later position is reached, no case is entered, neither PyDE nor
\* the sampler is called and no file is written
C6_CorruptIsFatal ==
    /\ hist.start_pyde.status = "corrupt" => pc \in {"probe_pyde", "end"}
    /\ hist.start_emcee.status = "corrupt" => pc \in {"probe_pyde", "probe_emcee", "end"}
    /\ optimize_file.status = "corrupt"
          => pc \in {"probe_pyde", "probe_emcee", "probe_optimize", "end"}
    /\ (\E f \in {hist.start_pyde, hist.start_emcee, optimize_file} :
            f.status = "corrupt")
          => /\ branch = 0 /\ calls.optimizer = 0 /\ calls.sampler = 0
             /\ calls.pyde_save = 0 /\ calls.emcee_save = 0 /\ calls.dummy = 0
             /\ pyde_file = hist.start_pyde /\ emcee_file = hist.start_emcee
             /\ pc = "end" => outcome \in {"raised_probe", "killed"}
    /\ pc \notin {"probe_pyde", "probe_emcee", "probe_optimize", "end"}
          => /\ reloaded_pyde = Present(hist.start_pyde)
             /\ reloaded_emcee = Present(hist.start_emcee)
             /\ reloaded_optimize = Present(optimize_file)

C6_Witness ==
    /\ pc = "end" /\ outcome = "raised_probe"
    /\ hist.start_pyde.status = "absent"
    /\ Present(hist.start_emcee) /\ reloaded_emcee
    /\ optimize_file.status = "corrupt"

\* C7: an exception of print_integrated_ACF or results_resumen, at the
\* resume or after a chunk, never ends the invocation
C7_DiagFailureHarmless ==
    outcome \notin {"raised_diag_resume", "raised_diag_chunk"}

\* C8: an ensemble checkpoint below nsteps and without sampler ends the
\* invocation at the return of line 114, after print_integrated_ACF: the
\* sampler and PyDE are never called, no file is written, none of the cases
\* is entered, and an invocation that ends without an exception and without
\* being stopped ends at that return
C8_LegacyCheckpointStops ==
    (/\ Present(hist.start_emcee)
     /\ hist.start_emcee.chain * cfg.thin < cfg.nsteps
     /\ ~hist.start_emcee.sampler)
    => /\ calls.sampler = 0 /\ calls.optimizer = 0
       /\ calls.emcee_save = 0 /\ calls.pyde_save = 0 /\ calls.dummy = 0
       /\ emcee_file = hist.start_emcee
       /\ branch = 0
       /\ pc \in {"probe_pyde", "probe_emcee", "probe_optimize", "loaded",
                  "resume_check", "end"}
       /\ pc = "end" => outcome \in {"no_sampler", "raised_probe",
                                      "raised_diag_resume", "killed"}
       /\ outcome = "no_sampler" => calls.diag = 1 /\ calls.diag_failed = 0

C8_Witness ==
    /\ pc = "end" /\ outcome = "no_sampler"
    /\ Present(hist.start_emcee) /\ ~hist.start_emcee.sampler
    /\ Present(hist.start_pyde)
    /\ calls.diag = 1

\* C9: PyDE is called only in case 5, at most once, and an invocation that
\* has its starting point has called PyDE if and only if no ensemble, PyDE or
\* optimize checkpoint was found and the configuration has no starting point
C9_OptimizerOnlyInCase5 ==
    /\ calls.optimizer <= 1
    /\ calls.optimizer > 0 => branch = 5 /\ StartCase = 5
    /\ (pc \in AfterResolution \/ (pc = "end" /\ outcome = "finished"))
          => ((calls.optimizer = 1) = (StartCase = 5))

C9_Witness ==
    /\ pc = "sampler" /\ branch = 5 /\ calls.optimizer = 1
    /\ StartCase = 5

\* C10: after PyDE has returned in case 5 the PyDE checkpoint is on disk
\* before the sampler is called, with or without the redefinition of the
\* bounds; an invocation that comes after one that wrote it never calls PyDE
\* and enters case 1 or case 2 only
C10_PydeCheckpointPersisted ==
    /\ (branch = 5 /\ (pc \in AfterResolution \/ calls.sampler > 0))
          => /\ Present(pyde_file) /\ calls.pyde_save = 1
             /\ pyde_file.theta = cfg.theta
             /\ pyde_file.population = [rows |-> mc.nwalkers,
                                        cols |-> pyde_file.starting_point]
    /\ hist.pyde_saved
          => /\ Present(hist.start_pyde)
             /\ calls.optimizer = 0
             /\ branch \in {0, 1, 2}

C10_Witness ==
    /\ run = 2 /\ hist.pyde_saved /\ branch = 2 /\ pc = "sampler"
    /\ pyde_file.bounds = Vals("config_bounds", cfg.theta)


\* the steps run in this invocation that the ensemble checkpoint on disk holds
PersistedSteps ==
    IF calls.emcee_save > 0 THEN emcee_file.samples - mc.completed_nsteps ELSE 0

\* C11: in the chunk loop run_mcmc of a chunk starts only when the checkpoint
\* of every earlier chunk of the invocation is written, and that checkpoint
\* holds all the steps run so far; at every moment the steps run and not yet in
\* the checkpoint are those of one chunk at most, so an interruption loses no
\* more than the chunk in progress
C11_CheckpointThenProceed ==
    /\ calls.sampler - calls.emcee_save \in {0, 1}
    /\ pc = "chunk_run" => calls.emcee_save = calls.sampler /\ calls.sampler = i
    /\ (pc = "chunk_run" /\ i > 0) =>
          /\ Present(emcee_file)
          /\ emcee_file.samples = mc.completed_nsteps + calls.steps
          /\ emcee_file.chain = sampler.chain
    /\ pc \in AfterResolution \cup {"end"} =>
          calls.steps - PersistedSteps \in {0, ChunkLength}

C11_Witness ==
    /\ pc = "chunk_run" /\ i = 1 /\ calls.emcee_save = 1
    /\ ~Present(hist.start_emcee)

\* C12: a pool is live only while PyDE runs or while run_mcmc of a chunk runs,
\* it is the pool opened for that very stage or chunk when the flag asks for
\* pools, there is never more than one, and none is live at any other
\* position: not when a checkpoint is written, not when the next chunk or the
\* sampler starts
C12_PoolDiscipline ==
    /\ Cardinality(pool) <= 1
    /\ pc = "pyde" =>
          pool = IF use_threading_pool.pyde THEN {Pool("pyde", 0)} ELSE {}
    /\ pc = "chunk_run" =>
          pool = IF use_threading_pool.emcee THEN {Pool("emcee", i)} ELSE {}
    /\ pc = "single_run" =>
          pool = IF use_threading_pool.emcee THEN {Pool("emcee", 0)} ELSE {}
    /\ pc \notin {"pyde", "chunk_run", "single_run"} => pool = {}

C12_Witness ==
    /\ pc = "chunk_run" /\ i = 1 /\ pool = {Pool("emcee", 1)}
    /\ calls.optimizer = 1 /\ use_threading_pool.pyde

\* C13: in an invocation that loaded an ensemble checkpoint the completed
\* steps are the length of the chain of the checkpoint times thin and the
\* steps left for the sampler are nsteps minus that, whatever samples the
\* checkpoint has stored
C13_CompletedFromChain ==
    reloaded_emcee =>
       /\ pc \in AfterResolution \cup {"resume_check", "pools", "resolve"} =>
             mc.completed_nsteps = hist.start_emcee.chain * cfg.thin
       /\ pc \in AfterResolution \cup {"pools", "resolve"} =>
             /\ nsteps_todo = cfg.nsteps - hist.start_emcee.chain * cfg.thin
             /\ nsteps_todo > 0
       /\ pc \in {"loop", "chunk_run"} /\ i = 0 =>
             niter = Ceil(cfg.nsteps - hist.start_emcee.chain * cfg.thin, cfg.nsave)
       /\ pc = "single_save" =>
             calls.steps = cfg.nsteps - hist.start_emcee.chain * cfg.thin

C13_Witness ==
    /\ pc = "single_save" /\ reloaded_emcee
    /\ hist.start_emcee.samples > hist.start_emcee.chain * cfg.thin
    /\ hist.start_emcee.samples >= cfg.nsteps
    /\ calls.steps = 2

\* a run that finds no checkpoint and no starting point, with no chunks
FreshSingleRun == StartCase = 5 /\ cfg.nsave <= 0

\* the order of the stages of such a run, whatever the checkpoint has to hold
FreshSingleOrder ==
    /\ calls.optimizer <= 1 /\ calls.pyde_save <= 1 /\ calls.sampler <= 1
    /\ calls.emcee_save <= 1 /\ calls.dummy <= 1
    /\ calls.pyde_save = 1 => calls.optimizer = 1 /\ Present(pyde_file)
    /\ calls.sampler = 1 => calls.pyde_save = 1 /\ Present(pyde_file)
    /\ calls.steps \in {0, cfg.nsteps}
    /\ calls.emcee_save = 1 =>
          calls.sampler = 1 /\ calls.steps = cfg.nsteps /\ Present(emcee_file)
    /\ calls.dummy = 1 => calls.emcee_save = 1 /\ dummy_file
    /\ outcome = "finished" => calls.dummy = 1

C15_ChunkFailureIsFatal ==
    /\ outcome = "raised_sampler" =>
          /\ pc = "end"
          /\ calls.sampler = calls.emcee_save + 1
          /\ calls.dummy = 0
          /\ calls.emcee_save = 0 => emcee_file = hist.start_emcee
          /\ calls.emcee_save > 0 =>
                /\ Present(emcee_file) /\ emcee_file.sampler
                /\ emcee_file.samples = mc.completed_nsteps + calls.steps
                /\ emcee_file.chain = hist.start_emcee.chain
                                      + calls.emcee_save * (cfg.nsave \div cfg.thin)
    /\ (hist.prev = "raised_sampler" /\ Present(hist.start_emcee)) =>
          /\ hist.start_emcee.sampler
          /\ emcee_file.chain >= hist.start_emcee.chain
          /\ branch \in {0, 1}
          /\ calls.optimizer = 0
          /\ pc \in AfterResolution \cup {"resume_check", "pools", "resolve"} =>
                reloaded_emcee
          /\ pc \in AfterResolution => branch = 1

C15_Witness ==
    /\ hist.prev = "raised_sampler" /\ Present(hist.start_emcee)
    /\ hist.pyde_saved /\ branch = 1 /\ pc = "chunk_run"

\* C16: with a PyDE checkpoint, no ensemble and no optimize checkpoint, and
\* every current name in the legacy dictionary, case 2 does not fail, also
\* when names were removed and the walkers are fewer; the population has the
\* current number of walkers and of columns, each column and each bound is the
\* legacy one of the same name, and starting_point is the median
C16_Case2SubsetSucceeds ==
    (/\ branch = 2 /\ ~Present(optimize_file)
     /\ Range(cfg.theta) \subseteq Range(hist.start_pyde.theta)) =>
       /\ outcome # "raised_remap"
       /\ pc \in {"summary", "sampler"} =>
             /\ population.rows = Nwalkers(Len(cfg.theta), cfg.npop_mult)
             /\ population.cols = Vals("pyde", cfg.theta)
             /\ mc.bounds = Vals("pyde_bounds", cfg.theta)
             /\ starting_point = Median(population)

\* the calls of results_analysis before the first chunk
DiagBeforeLoop == IF reloaded_emcee THEN 1 ELSE 2

\* C17: in the chunk loop the order within a chunk is run_mcmc, checkpoint,
\* diagnostics, reload; the reload puts in memory the sampler and the state of
\* the checkpoint just written, so every chunk after the first starts on a
\* sampler read from the file that holds exactly what the chunk before saved
C17_ReloadAfterChunk ==
    /\ pc = "chunk_save" =>
          calls.sampler = i + 1 /\ calls.emcee_save = i /\ calls.diag = DiagBeforeLoop + i
    /\ pc = "chunk_diag" =>
          /\ calls.emcee_save = i + 1 /\ calls.diag = DiagBeforeLoop + i
          /\ emcee_file.chain = sampler.chain
          /\ sampler.src # "simpler_load" \/ i > 0
    /\ pc = "chunk_reload" =>
          /\ calls.emcee_save = i + 1 /\ calls.diag = DiagBeforeLoop + i + 1
          /\ emcee_file.chain = sampler.chain
    /\ (pc \in {"loop", "chunk_run"} /\ i > 0) =>
          /\ calls.sampler = i /\ calls.emcee_save = i /\ calls.diag = DiagBeforeLoop + i
          /\ sampler = [ok |-> emcee_file.sampler, chain |-> emcee_file.chain,
                        src |-> "simpler_load"]
          /\ sampler.ok
          /\ state = emcee_file.chain
          /\ emcee_file.samples = mc.completed_nsteps + i * cfg.nsave
    /\ (pc \in {"loop", "chunk_run"} /\ i = 0) => sampler.src \in {"new", "emcee_load"}

C17_Witness ==
    /\ pc = "chunk_run" /\ i = 1 /\ sampler.src = "simpler_load"
    /\ reloaded_emcee /\ sampler.chain > hist.start_emcee.chain

\* a step that writes the ensemble checkpoint
EmceeWritten == calls'.emcee_save > calls.emcee_save

\* C18 as stated: every ensemble checkpoint written over an earlier one has a
\* chain strictly longer than the one it replaces, within an invocation and
\* from one invocation to the next
C18_ChainStrictlyGrows ==
    [][(EmceeWritten /\ Present(emcee_file))
          => emcee_file'.chain > emcee_file.chain]_vars

\* C18, amended: the chain of the checkpoint written is the chain of the one
\* it replaces plus the steps of the chunk \div thin; it is never shorter, and
\* it is strictly longer when the chunk has at least thin steps
C18_ChainNeverShrinks ==
    [][EmceeWritten =>
          /\ Present(emcee_file')
          /\ emcee_file'.chain = emcee_file.chain + (ChunkLength \div cfg.thin)
          /\ emcee_file'.chain >= emcee_file.chain
          /\ ChunkLength >= cfg.thin => emcee_file'.chain > emcee_file.chain]_vars

C18_Witness ==
    /\ run > 1 /\ hist.prev = "raised_sampler" /\ Present(hist.start_emcee)
    /\ calls.emcee_save = 1 /\ emcee_file.chain > hist.start_emcee.chain
    /\ hist.pyde_saved

\* C19: whatever the optimize checkpoint is, in case 1 the starting_point
\* that goes into the sampling and into the ensemble checkpoints written is
\* the one of the ensemble checkpoint loaded, and in case 2 the dictionary
\* taken as theta_dict_legacy is the one of the PyDE checkpoint
C19_TierIsolation ==
    /\ (branch = 1 /\ pc \in AfterResolution) =>
          /\ starting_point = hist.start_emcee.starting_point
          /\ calls.emcee_save > 0 =>
                emcee_file.starting_point = hist.start_emcee.starting_point
    /\ (pc = "resolve" /\ IsCase2) => theta_dict = hist.start_pyde.theta

\* C20: when the invocation before ended with the dummy file written and
\* every chunk it ran had a number of steps that thin divides, this
\* invocation finds an ensemble checkpoint whose chain times thin is at least
\* nsteps, goes no further than the check of line 89, calls neither the
\* sampler nor PyDE and leaves the checkpoints as it found them; it ends at the
\* return of line 107 unless the diagnostics before it raise or it is killed
C20_IdempotentResume ==
    (hist.prev = "finished" /\ hist.prev_thin) =>
       /\ Present(hist.start_emcee)
       /\ hist.start_emcee.chain * cfg.thin >= cfg.nsteps
       /\ calls.sampler = 0 /\ calls.steps = 0 /\ calls.optimizer = 0
       /\ calls.emcee_save = 0 /\ calls.pyde_save = 0 /\ calls.pyde_orig_save = 0
       /\ emcee_file = hist.start_emcee /\ pyde_file = hist.start_pyde
       /\ branch = 0
       /\ pc \in {"probe_pyde", "probe_emcee", "probe_optimize", "loaded",
                  "resume_check", "end"}
       /\ outcome \in {"running", "completed", "raised_diag_resume", "killed"}

C20_Witness ==
    /\ hist.prev = "finished" /\ hist.prev_thin /\ outcome = "completed"
    /\ cfg.nsave = 2 /\ cfg.thin = 2 /\ cfg.nsteps = 3 /\ hist.pyde_saved

====
